---------------------------- MODULE Spec2Model ----------------------------
(***************************************************************************)
(* Model of polynomial.py: the Polynomial value (coefficients in ascending *)
(* power order plus a display symbol), its arithmetic and rendering, and   *)
(* the lexer / parser / normaliser behind Polynomial.from_string.          *)
(*                                                                         *)
(* A text is a sequence of one-character strings.  Python's None is the    *)
(* empty sequence (a variable name is never empty).  An operation that     *)
(* raises yields a result whose kind is the name of the exception class.   *)
(***************************************************************************)
EXTENDS Integers, Sequences, FiniteSets, TLC

VARIABLES
    pc,     \* "start" | "input" | "rendered" | "done"
    op,     \* the last operation applied
    text,   \* the string handed to (or produced for) from_string
    a,      \* left operand:  [coeffs, disp_ch]
    b,      \* right operand: [coeffs, disp_ch]
    res     \* result of the last operation

vars == <<pc, op, text, a, b, res>>

-----------------------------------------------------------------------------
(* Bounds of the explored input space *)

MaxLen == 4          \* longest coefficient list of a unary operand
MaxCoeff == 2        \* unary operands draw coefficients from -MaxCoeff..MaxCoeff
MaxLenBin == 2       \* longest coefficient list of a binary operand
MaxCoeffBin == 2     \* binary operands draw coefficients from -MaxCoeffBin..MaxCoeffBin
MaxTextLen == 5      \* longest exhaustively enumerated input text

-----------------------------------------------------------------------------
(* Characters *)

Digits == <<"0", "1", "2", "3", "4", "5", "6", "7", "8", "9">>

IsDigit(ch) == \E i \in 1..10 : Digits[i] = ch

Letters == {"x", "y", "z"}

IsAlpha(ch) == ch \in Letters

IsSpace(ch) == ch = " "

None == <<>>

DefaultDispCh == <<"x">>

-----------------------------------------------------------------------------
(* int() and str() on decimal text *)

DigitValue(ch) == (CHOOSE i \in 1..10 : Digits[i] = ch) - 1

RECURSIVE ParseInt(_)
ParseInt(s) ==
    IF s = <<>> THEN 0
    ELSE 10 * ParseInt(SubSeq(s, 1, Len(s) - 1)) + DigitValue(s[Len(s)])

RECURSIVE NatToStr(_)
NatToStr(n) ==
    IF n < 10 THEN <<Digits[n + 1]>>
    ELSE NatToStr(n \div 10) \o <<Digits[(n % 10) + 1]>>

IntToStr(n) == IF n < 0 THEN <<"-">> \o NatToStr(-n) ELSE NatToStr(n)

-----------------------------------------------------------------------------
(* _Lexer.  pos is the 0-based cursor; current_char is text[pos] whenever   *)
(* it is read, and None once the cursor has run past the end.              *)

Token(type, value) == [type |-> type, value |-> value]

Lexed(err, tok, pos) == [err |-> err, tok |-> tok, pos |-> pos]

RECURSIVE SkipWhitespace(_, _)
SkipWhitespace(s, pos) ==
    IF pos < Len(s) /\ IsSpace(s[pos + 1]) THEN SkipWhitespace(s, pos + 1)
    ELSE pos

RECURSIVE DigitRunEnd(_, _)
DigitRunEnd(s, pos) ==
    IF pos < Len(s) /\ IsDigit(s[pos + 1]) THEN DigitRunEnd(s, pos + 1)
    ELSE pos

RECURSIVE AlphaRunEnd(_, _)
AlphaRunEnd(s, pos) ==
    IF pos < Len(s) /\ IsAlpha(s[pos + 1]) THEN AlphaRunEnd(s, pos + 1)
    ELSE pos

GetInteger(s, pos) ==
    LET e == DigitRunEnd(s, pos)
    IN  Lexed("none", Token("INTEGER", SubSeq(s, pos + 1, e)), e)

GetVariable(s, pos) ==
    LET e == AlphaRunEnd(s, pos)
    IN  Lexed("none", Token("VARIABLE", SubSeq(s, pos + 1, e)), e)

GetOperator(s, pos) ==
    LET ch == s[pos + 1]
        type == IF ch = "+" THEN "OP_PLUS"
                ELSE IF ch = "-" THEN "OP_MINUS"
                ELSE IF ch = "*" THEN "OP_TIMES"
                ELSE "OP_EXPONENT"
    IN  Lexed("none", Token(type, <<ch>>), pos + 1)

EOFToken == Token("EOF", None)

GetNextToken(s, pos) ==
    IF pos > Len(s) - 1 THEN Lexed("none", EOFToken, pos)
    ELSE LET p == IF IsSpace(s[pos + 1]) THEN SkipWhitespace(s, pos) ELSE pos
         IN  IF p >= Len(s)
             THEN \* current_char is None: None.isdigit()
                  Lexed("AttributeError", EOFToken, p)
             ELSE IF IsDigit(s[p + 1]) THEN GetInteger(s, p)
             ELSE IF IsAlpha(s[p + 1]) THEN GetVariable(s, p)
             ELSE IF s[p + 1] \in {"+", "-", "*", "^"} THEN GetOperator(s, p)
             ELSE Lexed("unexpected character", EOFToken, p)

-----------------------------------------------------------------------------
(* _Parser, with assert statements enabled (the interpreter's default).      *)
(* A parser state is the lexer cursor, the current token and the           *)
(* exception raised so far ("none" while running); a step applied to a      *)
(* state that has raised leaves it unchanged.  The two ParseErrors of the   *)
(* lexer and of eat() are told apart by their message: "unexpected          *)
(* character" and "expected token".                                         *)

PState(err, tok, pos) == [err |-> err, tok |-> tok, pos |-> pos]

Advance(s, ps) ==
    IF ps.err # "none" THEN ps
    ELSE LET r == GetNextToken(s, ps.pos) IN PState(r.err, r.tok, r.pos)

ParserInit(s) == Advance(s, PState("none", EOFToken, 0))

Eat(s, ps, type, optional) ==
    IF ps.err # "none" THEN ps
    ELSE IF ps.tok.type # type
         THEN IF optional THEN ps ELSE [ps EXCEPT !.err = "expected token"]
         ELSE Advance(s, ps)

Node(coefficient, var_name, exponent) ==
    [kind |-> "node", coefficient |-> coefficient, var_name |-> var_name,
     exponent |-> exponent, sym |-> ""]

AddOp(sym) ==
    [kind |-> "op", coefficient |-> 0, var_name |-> None, exponent |-> 0,
     sym |-> sym]

Parsed(ps, item) == [ps |-> ps, item |-> item]

\* the optional '^' INTEGER, entered with the token after '^' current
ParseExponentValue(s, ps, coefficient, var_name) ==
    Parsed(Eat(s, ps, "INTEGER", FALSE),
           Node(coefficient, var_name,
                IF ps.tok.type = "INTEGER" THEN ParseInt(ps.tok.value) ELSE 0))

ParseExponent(s, ps, coefficient, var_name) ==
    IF ps.tok.type = "OP_EXPONENT"
    THEN ParseExponentValue(s, Advance(s, ps), coefficient, var_name)
    ELSE Parsed(ps, Node(coefficient, var_name,
                         IF var_name = None THEN 0 ELSE 1))

\* bound is the var_name set so far, None while the local is unset
ParseVariable(s, ps, coefficient, bound) ==
    IF ps.tok.type = "VARIABLE"
    THEN ParseExponent(s, Advance(s, ps), coefficient, ps.tok.value)
    ELSE ParseExponent(s, ps, coefficient, bound)

ParseNode(s, ps) ==
    IF ps.tok.type \notin {"INTEGER", "VARIABLE"}
    THEN Parsed([ps EXCEPT !.err = "AssertionError"], AddOp(""))
    ELSE ParseVariable(s, Eat(s, Advance(s, ps), "OP_TIMES", TRUE),
                       IF ps.tok.type = "INTEGER" THEN ParseInt(ps.tok.value) ELSE 1,
                       IF ps.tok.type = "VARIABLE" THEN ps.tok.value ELSE None)

AddopSym(type) ==
    IF type = "OP_PLUS" THEN "+" ELSE IF type = "OP_MINUS" THEN "-" ELSE ""

\* ret is bound only for '+', '-' and EOF; advance() runs before ret is read
ReturnRet(type, ps) ==
    IF ps.err = "none" /\ type \notin {"OP_PLUS", "OP_MINUS", "EOF"}
    THEN [ps EXCEPT !.err = "UnboundLocalError"]
    ELSE ps

ParseAddop(s, ps) ==
    IF ps.err # "none" THEN Parsed(ps, AddOp(""))
    ELSE Parsed(ReturnRet(ps.tok.type, Advance(s, ps)), AddOp(AddopSym(ps.tok.type)))

\* result.append(node); if op is not None: result.append(op)
AppendBoth(result, node, o) ==
    IF o.sym # "" THEN Append(Append(result, node), o) ELSE Append(result, node)

RECURSIVE ParseLoop(_, _, _)

ParseLoopStep(s, result, node, o) ==
    IF o.ps.err # "none" THEN [err |-> o.ps.err, ast |-> result]
    ELSE ParseLoop(s, o.ps, AppendBoth(result, node, o.item))

ParseLoopNode(s, result, n) == ParseLoopStep(s, result, n.item, ParseAddop(s, n.ps))

ParseLoop(s, ps, result) ==
    IF ps.err # "none" THEN [err |-> ps.err, ast |-> result]
    ELSE IF ps.tok.type = "EOF" THEN [err |-> "none", ast |-> result]
    ELSE ParseLoopNode(s, result, ParseNode(s, ps))

Parse(s) == ParseLoop(s, ParserInit(s), <<>>)

-----------------------------------------------------------------------------
(* Results of an operation *)

Poly(coeffs, disp_ch) == [coeffs |-> coeffs, disp_ch |-> disp_ch]

\* Polynomial.__init__: a falsy disp_ch leaves the class default 'x'
Polynomial(coeffs, disp_ch) ==
    [kind |-> "Polynomial", coeffs |-> coeffs,
     disp_ch |-> IF disp_ch # None THEN disp_ch ELSE DefaultDispCh,
     msg |-> "", exponent |-> 0, names |-> <<>>]

Raise(kind, msg, exponent, names) ==
    [kind |-> kind, coeffs |-> <<>>, disp_ch |-> None,
     msg |-> msg, exponent |-> exponent, names |-> names]

ParseErrorMsgs == {"unexpected character", "expected token"}

RaiseFromParser(err) ==
    IF err \in ParseErrorMsgs THEN Raise("ParseError", err, 0, <<>>)
    ELSE Raise(err, "", 0, <<>>)

NoResult == Raise("none", "", 0, <<>>)

-----------------------------------------------------------------------------
(* Polynomial.from_string: the normalisation of the parsed list *)

RECURSIVE ApplySigns(_, _)
ApplySigns(ast, last_op_minus) ==
    IF ast = <<>> THEN <<>>
    ELSE LET x == Head(ast) IN
         IF x.kind = "node"
         THEN <<IF last_op_minus THEN [x EXCEPT !.coefficient = x.coefficient * (-1)]
                ELSE x>> \o ApplySigns(Tail(ast), last_op_minus)
         ELSE ApplySigns(Tail(ast), x.sym = "-")

\* sorted(..., key=exponent) is stable: a node goes after every node whose
\* exponent is not larger
RECURSIVE InsertByExponent(_, _)
InsertByExponent(sorted, node) ==
    IF sorted = <<>> THEN <<node>>
    ELSE IF Head(sorted).exponent <= node.exponent
         THEN <<Head(sorted)>> \o InsertByExponent(Tail(sorted), node)
         ELSE <<node>> \o sorted

RECURSIVE SortedByExponent(_)
SortedByExponent(nodes) ==
    IF nodes = <<>> THEN <<>>
    ELSE InsertByExponent(SortedByExponent(SubSeq(nodes, 1, Len(nodes) - 1)),
                          nodes[Len(nodes)])

\* index of the first node whose exponent was already seen, 0 if none
RECURSIVE FirstSeenAgain(_, _, _)
FirstSeenAgain(nodes, i, seen_exponents) ==
    IF i > Len(nodes) THEN 0
    ELSE IF nodes[i].exponent \notin seen_exponents
         THEN FirstSeenAgain(nodes, i + 1, seen_exponents \cup {nodes[i].exponent})
         ELSE i

\* the loop over var_name: [clash, var_name, other]
RECURSIVE CheckVarNames(_, _, _)
CheckVarNames(nodes, i, var_name) ==
    IF i > Len(nodes) THEN [clash |-> FALSE, var_name |-> var_name, other |-> None]
    ELSE IF var_name = None THEN CheckVarNames(nodes, i + 1, nodes[i].var_name)
    ELSE IF nodes[i].var_name # var_name
         THEN [clash |-> TRUE, var_name |-> var_name, other |-> nodes[i].var_name]
         ELSE CheckVarNames(nodes, i + 1, var_name)

RECURSIVE LargestExponent(_)
LargestExponent(nodes) ==
    IF Len(nodes) = 1 THEN nodes[1].exponent
    ELSE LET m == LargestExponent(Tail(nodes))
         IN  IF nodes[1].exponent >= m THEN nodes[1].exponent ELSE m

\* the inner loop of the fill: the last node with this exponent wins
RECURSIVE CoeffFor(_, _, _)
CoeffFor(nodes, exp, current) ==
    IF nodes = <<>> THEN current
    ELSE CoeffFor(Tail(nodes), exp,
                  IF Head(nodes).exponent = exp THEN Head(nodes).coefficient
                  ELSE current)

FillCoeffs(nodes, largest_exponent) ==
    [i \in 1..(largest_exponent + 1) |-> CoeffFor(nodes, i - 1, 0)]

CheckedNodes(nodes, dup, names) ==
    IF dup # 0
    THEN Raise("ParseError", "duplicate exponent", nodes[dup].exponent, <<>>)
    ELSE IF names.clash
    THEN Raise("ParseError", "mixed variables", 0, <<names.var_name, names.other>>)
    ELSE IF nodes = <<>>
    THEN \* max() of an empty list
         Raise("ValueError", "", 0, <<>>)
    ELSE Polynomial(FillCoeffs(nodes, LargestExponent(nodes)), names.var_name)

NormalizedNodes(ast) == SortedByExponent(ApplySigns(ast, FALSE))

FromNodes(nodes) ==
    CheckedNodes(nodes, FirstSeenAgain(nodes, 1, {}), CheckVarNames(nodes, 1, None))

FromParsed(parsed) ==
    IF parsed.err # "none" THEN RaiseFromParser(parsed.err)
    ELSE FromNodes(NormalizedNodes(parsed.ast))

FromString(s) == FromParsed(Parse(s))

-----------------------------------------------------------------------------
(* Polynomial arithmetic.  Every result is built by Polynomial(new_coeffs), *)
(* so it carries the default display symbol.                                *)

Zeros(n) == [i \in 1..n |-> 0]

Max(m, n) == IF m >= n THEN m ELSE n

\* for (pow, coeff) in enumerate(coeffs): new_coeffs[pow] += coeff
PlusEq(new_coeffs, coeffs) ==
    [i \in 1..Len(new_coeffs) |->
        IF i <= Len(coeffs) THEN new_coeffs[i] + coeffs[i] ELSE new_coeffs[i]]

\* mutant of MinusEq: += where __sub__ has -=
MinusEqAdds(new_coeffs, coeffs) ==
    [i \in 1..Len(new_coeffs) |->
        IF i <= Len(coeffs) THEN new_coeffs[i] + coeffs[i] ELSE new_coeffs[i]]

\* for (pow, coeff) in enumerate(coeffs): new_coeffs[pow] -= coeff
MinusEq(new_coeffs, coeffs) ==
    [i \in 1..Len(new_coeffs) |->
        IF i <= Len(coeffs) THEN new_coeffs[i] - coeffs[i] ELSE new_coeffs[i]]

Add(self, other) ==
    LET new_coeffs == Zeros(Max(Len(self.coeffs), Len(other.coeffs)))
    IN  Polynomial(PlusEq(PlusEq(new_coeffs, self.coeffs), other.coeffs), None)

Sub(self, other) ==
    LET new_coeffs == Zeros(Max(Len(self.coeffs), Len(other.coeffs)))
    IN  Polynomial(MinusEq(PlusEq(new_coeffs, self.coeffs), other.coeffs), None)

\* mutant of MulLoop: = where __mul__ has +=
RECURSIVE MulLoopAssigns(_, _, _, _, _)
MulLoopAssigns(new_coeffs, xs, ys, i, j) ==
    IF i >= Len(xs) THEN new_coeffs
    ELSE IF j >= Len(ys) THEN MulLoopAssigns(new_coeffs, xs, ys, i + 1, 0)
    ELSE MulLoopAssigns([new_coeffs EXCEPT ![i + j + 1] = xs[i + 1] * ys[j + 1]],
                        xs, ys, i, j + 1)

\* the double loop of __mul__, entered at (i, j), both 0-based
RECURSIVE MulLoop(_, _, _, _, _)
MulLoop(new_coeffs, xs, ys, i, j) ==
    IF i >= Len(xs) THEN new_coeffs
    ELSE IF j >= Len(ys) THEN MulLoop(new_coeffs, xs, ys, i + 1, 0)
    ELSE MulLoop([new_coeffs EXCEPT ![i + j + 1] = @ + xs[i + 1] * ys[j + 1]],
                 xs, ys, i, j + 1)

Mul(self, other) ==
    LET new_coeffs == Zeros(Len(self.coeffs) + Len(other.coeffs) - 1)
    IN  Polynomial(MulLoop(new_coeffs, self.coeffs, other.coeffs, 0, 0), None)

\* mutant of Derivative: the constant term's entry is not dropped
DerivativeKeepsAll(self) ==
    IF Len(self.coeffs) \in {0, 1} THEN Polynomial(<<0>>, None)
    ELSE Polynomial([i \in 1..Len(self.coeffs) |-> (i - 1) * self.coeffs[i]], None)

Derivative(self) ==
    IF Len(self.coeffs) \in {0, 1} THEN Polynomial(<<0>>, None)
    ELSE LET new_coeffs == [i \in 1..Len(self.coeffs) |-> (i - 1) * self.coeffs[i]]
         IN  Polynomial(Tail(new_coeffs), None)

-----------------------------------------------------------------------------
(* Polynomial.__str__ *)

RECURSIVE Join(_, _)
Join(sep, parts) ==
    IF parts = <<>> THEN <<>>
    ELSE IF Len(parts) = 1 THEN parts[1]
    ELSE parts[1] \o sep \o Join(sep, Tail(parts))

StartsWith(s, old) == Len(s) >= Len(old) /\ SubSeq(s, 1, Len(old)) = old

\* str.replace: left to right, occurrences do not overlap
RECURSIVE Replace(_, _, _)
Replace(s, old, new) ==
    IF Len(s) < Len(old) THEN s
    ELSE IF StartsWith(s, old)
         THEN new \o Replace(SubSeq(s, Len(old) + 1, Len(s)), old, new)
         ELSE <<Head(s)>> \o Replace(Tail(s), old, new)

\* mutant of TermStr: -1 is written as a bare sign, like 1 as nothing
TermStrBareMinus(pow, coeff, disp_ch) ==
    LET coeff_part == IF coeff = 1 THEN <<>>
                      ELSE IF coeff = -1 THEN <<"-">>
                      ELSE IntToStr(coeff)
        pow_part == IF pow = 0 THEN <<>>
                    ELSE IF pow = 1 THEN disp_ch
                    ELSE disp_ch \o <<"^">> \o IntToStr(pow)
    IN  coeff_part \o pow_part

TermStr(pow, coeff, disp_ch) ==
    LET coeff_part == IF coeff = 1 THEN <<>> ELSE IntToStr(coeff)
        pow_part == IF pow = 0 THEN <<>>
                    ELSE IF pow = 1 THEN disp_ch
                    ELSE disp_ch \o <<"^">> \o IntToStr(pow)
    IN  coeff_part \o pow_part

RECURSIVE Retlist(_, _, _)
Retlist(coeffs, disp_ch, i) ==
    IF i > Len(coeffs) THEN <<>>
    ELSE IF coeffs[i] = 0 THEN Retlist(coeffs, disp_ch, i + 1)
    ELSE <<TermStr(i - 1, coeffs[i], disp_ch)>> \o Retlist(coeffs, disp_ch, i + 1)

Str(self) ==
    Replace(Join(<<" ", "+", " ">>, Retlist(self.coeffs, self.disp_ch, 1)),
            <<"+", " ", "-">>, <<"-", " ">>)

-----------------------------------------------------------------------------
(* Inputs *)

SeqsUpTo(S, n) == UNION {[1..k -> S] : k \in 0..n}

TextChars == {"0", "1", "2", "x", "y", "+", "-", "*", "^", " ", "?"}

ExampleTexts ==
    { <<"3", "x", "^", "3", " ", "-", " ", "4", "x", " ", "+", " ", "5">>,
      <<"3", "x", "^", "3", " ", "-", " ", "4", "x", " ", "+", " ", "5", " ">>,
      <<"x", "^", "2", " ", "+", " ", "3", "x", "^", "2">>,
      <<"x", " ", "+", " ", "y">>,
      <<"1", "0", "x", "^", "1", "0">>,
      <<"5", " ", "+", " ", "2", "*", "y", "^", "2">> }

Texts == SeqsUpTo(TextChars, MaxTextLen) \cup ExampleTexts

DispChs == {<<"x">>, <<"z">>}

ExampleCoeffs == { <<3, 4, 5, 9>>, <<9, 12, 3>>, <<7, 14, 23>>, <<-10, 1, 0, 11>> }

UnaryOperands ==
    {Poly(c, d) : c \in SeqsUpTo(-MaxCoeff..MaxCoeff, MaxLen) \cup ExampleCoeffs,
                  d \in DispChs}

BinaryOperands ==
    {Poly(c, DefaultDispCh) :
        c \in SeqsUpTo(-MaxCoeffBin..MaxCoeffBin, MaxLenBin) \cup ExampleCoeffs}

ZeroPoly == Poly(<<0>>, DefaultDispCh)

-----------------------------------------------------------------------------
(* Operations *)

DoFromString ==
    /\ pc \in {"input", "rendered"}
    /\ res' = FromString(text)
    /\ op' = "from_string"
    /\ pc' = "done"
    /\ UNCHANGED <<text, a, b>>

DoStr ==
    /\ pc = "start"
    /\ text' = Str(a)
    /\ op' = "str"
    /\ pc' = "rendered"
    /\ UNCHANGED <<a, b, res>>

DoDerivative ==
    /\ pc = "start"
    /\ res' = Derivative(a)
    /\ op' = "derivative"
    /\ pc' = "done"
    /\ UNCHANGED <<text, a, b>>

DoAdd ==
    /\ pc = "start"
    /\ res' = Add(a, b)
    /\ op' = "add"
    /\ pc' = "done"
    /\ UNCHANGED <<text, a, b>>

DoSub ==
    /\ pc = "start"
    /\ res' = Sub(a, b)
    /\ op' = "sub"
    /\ pc' = "done"
    /\ UNCHANGED <<text, a, b>>

DoMul ==
    /\ pc = "start"
    /\ res' = Mul(a, b)
    /\ op' = "mul"
    /\ pc' = "done"
    /\ UNCHANGED <<text, a, b>>

-----------------------------------------------------------------------------
(* Spec: one polynomial value is differentiated, or rendered and the         *)
(* rendering parsed back.                                                   *)

Init ==
    /\ pc = "start"
    /\ op = "none"
    /\ text = <<>>
    /\ a \in UnaryOperands
    /\ b = ZeroPoly
    /\ res = NoResult

Next == DoDerivative \/ DoStr \/ DoFromString

Spec == Init /\ [][Next]_vars

(* SpecBinary: two polynomial values are added, subtracted or multiplied.   *)

InitBinary ==
    /\ pc = "start"
    /\ op = "none"
    /\ text = <<>>
    /\ a \in BinaryOperands
    /\ b \in BinaryOperands
    /\ res = NoResult

NextBinary == DoAdd \/ DoSub \/ DoMul

SpecBinary == InitBinary /\ [][NextBinary]_vars

(* SpecParse: from_string is applied to an input text.                      *)

InitParse ==
    /\ pc = "input"
    /\ op = "none"
    /\ text \in Texts
    /\ a = ZeroPoly
    /\ b = ZeroPoly
    /\ res = NoResult

NextParse == DoFromString

SpecParse == InitParse /\ [][NextParse]_vars

-----------------------------------------------------------------------------
(* The text format the claims refer to: tokens (whitespace skipped, maximal *)
(* runs of digits and of letters, the four operator characters) and the     *)
(* term grammar over them:                                                  *)
(*     text ::= [ term { ('+' | '-') term } ]                               *)
(*     term ::= INTEGER ['*'] [ VARIABLE ['^' INTEGER] ]                    *)
(*            | VARIABLE ['^' INTEGER]                                      *)
(* A grammar term carries its sign: the coefficient is negated when the     *)
(* add-operator before the term is '-'.                                     *)

RECURSIVE FormatTokens(_, _, _)

FormatTokensAt(s, p, acc) ==
    IF p >= Len(s) THEN [ok |-> TRUE, toks |-> acc]
    ELSE IF IsDigit(s[p + 1])
    THEN FormatTokens(s, DigitRunEnd(s, p),
                      Append(acc, Token("INTEGER", SubSeq(s, p + 1, DigitRunEnd(s, p)))))
    ELSE IF IsAlpha(s[p + 1])
    THEN FormatTokens(s, AlphaRunEnd(s, p),
                      Append(acc, Token("VARIABLE", SubSeq(s, p + 1, AlphaRunEnd(s, p)))))
    ELSE IF s[p + 1] = "+" THEN FormatTokens(s, p + 1, Append(acc, Token("OP_PLUS", <<"+">>)))
    ELSE IF s[p + 1] = "-" THEN FormatTokens(s, p + 1, Append(acc, Token("OP_MINUS", <<"-">>)))
    ELSE IF s[p + 1] = "*" THEN FormatTokens(s, p + 1, Append(acc, Token("OP_TIMES", <<"*">>)))
    ELSE IF s[p + 1] = "^" THEN FormatTokens(s, p + 1, Append(acc, Token("OP_EXPONENT", <<"^">>)))
    ELSE [ok |-> FALSE, toks |-> acc]

FormatTokens(s, pos, acc) == FormatTokensAt(s, SkipWhitespace(s, pos), acc)

TypeAt(toks, i) == IF i <= Len(toks) THEN toks[i].type ELSE "EOF"

Term(minus, coefficient, var_name, exponent) ==
    [coefficient |-> IF minus THEN 0 - coefficient ELSE coefficient,
     var_name |-> var_name, exponent |-> exponent]

NoMatch == [ok |-> FALSE, terms |-> <<>>]

RECURSIVE GrammarTerm(_, _, _, _)

GrammarAfterTerm(toks, j, acc) ==
    IF TypeAt(toks, j) = "EOF" THEN [ok |-> TRUE, terms |-> acc]
    ELSE IF TypeAt(toks, j) \in {"OP_PLUS", "OP_MINUS"}
    THEN GrammarTerm(toks, j + 1, TypeAt(toks, j) = "OP_MINUS", acc)
    ELSE NoMatch

GrammarExponent(toks, j, minus, coefficient, var_name, acc) ==
    IF TypeAt(toks, j) = "OP_EXPONENT"
    THEN IF TypeAt(toks, j + 1) = "INTEGER"
         THEN GrammarAfterTerm(toks, j + 2,
                  Append(acc, Term(minus, coefficient, var_name,
                                   ParseInt(toks[j + 1].value))))
         ELSE NoMatch
    ELSE GrammarAfterTerm(toks, j, Append(acc, Term(minus, coefficient, var_name, 1)))

GrammarVariable(toks, j, minus, coefficient, acc) ==
    IF TypeAt(toks, j) = "VARIABLE"
    THEN GrammarExponent(toks, j + 1, minus, coefficient, toks[j].value, acc)
    ELSE GrammarAfterTerm(toks, j, Append(acc, Term(minus, coefficient, None, 0)))

GrammarTerm(toks, i, minus, acc) ==
    IF TypeAt(toks, i) = "INTEGER"
    THEN GrammarVariable(toks, IF TypeAt(toks, i + 1) = "OP_TIMES" THEN i + 2 ELSE i + 1,
                         minus, ParseInt(toks[i].value), acc)
    ELSE IF TypeAt(toks, i) = "VARIABLE"
    THEN GrammarExponent(toks, i + 1, minus, 1, toks[i].value, acc)
    ELSE NoMatch

GrammarTerms(toks) ==
    IF toks = <<>> THEN [ok |-> TRUE, terms |-> <<>>] ELSE GrammarTerm(toks, 1, FALSE, <<>>)

\* the tokens of the current text, and its terms when it matches the grammar
TextTokens == FormatTokens(text, 0, <<>>)

TextTerms == IF TextTokens.ok THEN GrammarTerms(TextTokens.toks) ELSE NoMatch

MatchesGrammar == TextTokens.ok /\ TextTerms.ok /\ TextTerms.terms # <<>>

ViolatesGrammar == TextTokens.ok /\ ~TextTerms.ok

Exponents(terms) == {terms[k].exponent : k \in 1..Len(terms)}

VarNames(terms) == {terms[k].var_name : k \in 1..Len(terms)} \ {None}

DistinctExponents(terms) ==
    \A k, l \in 1..Len(terms) : k # l => terms[k].exponent # terms[l].exponent

RepeatedExponents(terms) ==
    {terms[k].exponent : k \in {m \in 1..Len(terms) :
        \E l \in 1..Len(terms) : l # m /\ terms[l].exponent = terms[m].exponent}}

SetMax(S) == CHOOSE m \in S : \A n \in S : n <= m

\* entry e is the coefficient of the term with exponent e, 0 when there is none
ExpectedCoeffs(terms) ==
    [i \in 1..(SetMax(Exponents(terms)) + 1) |->
        IF \E k \in 1..Len(terms) : terms[k].exponent = i - 1
        THEN terms[CHOOSE k \in 1..Len(terms) : terms[k].exponent = i - 1].coefficient
        ELSE 0]

AfterFromString == pc = "done" /\ op = "from_string"

-----------------------------------------------------------------------------
(* Claims about from_string, checked under SpecParse *)

\* C1: for a text that matches the term grammar with pairwise-distinct
\* exponents and a single variable name, from_string returns a Polynomial
\* whose coefficient list has length (largest exponent) + 1, holds at index e
\* the signed coefficient of the term with exponent e, and 0 elsewhere.
C1_FromStringCoeffs ==
    (AfterFromString /\ MatchesGrammar /\ DistinctExponents(TextTerms.terms)
        /\ Cardinality(VarNames(TextTerms.terms)) <= 1)
    => (res.kind = "Polynomial" /\ res.coeffs = ExpectedCoeffs(TextTerms.terms))

\* C3: every text that violates the term grammar makes from_string fail with
\* ParseError, with no other kind of failure and no Polynomial returned.
C3_GrammarViolationIsParseError ==
    (AfterFromString /\ ViolatesGrammar) => res.kind = "ParseError"

\* C4: for the empty string and for every whitespace-only text, from_string
\* returns the zero polynomial [0], whose rendering is the empty string.
C4_BlankTextIsZero ==
    (AfterFromString /\ \A i \in 1..Len(text) : IsSpace(text[i]))
    => (res.kind = "Polynomial" /\ res.coeffs = <<0>> /\ Str(res) = <<>>)

\* C9: for a text that matches the term grammar and has two terms with the
\* same exponent, from_string fails with the duplicate-exponent error naming
\* that exponent.
C9_DuplicateExponentRejected ==
    (AfterFromString /\ MatchesGrammar /\ ~DistinctExponents(TextTerms.terms))
    => (res.kind = "ParseError" /\ res.msg = "duplicate exponent"
        /\ res.exponent \in RepeatedExponents(TextTerms.terms))

\* C10: for a text that matches the term grammar with pairwise-distinct
\* exponents, from_string fails with the mixed-variable error exactly when the
\* terms carry more than one variable name; otherwise the display symbol of
\* the result is the one name used, or "x" when every term is a constant.
C10_MixedVariables ==
    (AfterFromString /\ MatchesGrammar /\ DistinctExponents(TextTerms.terms))
    => IF Cardinality(VarNames(TextTerms.terms)) > 1
       THEN res.kind = "ParseError" /\ res.msg = "mixed variables"
       ELSE /\ res.kind = "Polynomial"
            /\ res.disp_ch \in (IF VarNames(TextTerms.terms) = {} THEN {DefaultDispCh}
                                ELSE VarNames(TextTerms.terms))

-----------------------------------------------------------------------------
(* Claims about the arithmetic, checked under SpecBinary and Spec *)

At(coeffs, i) == IF i <= Len(coeffs) THEN coeffs[i] ELSE 0

Negated(p) == Poly([i \in 1..Len(p.coeffs) |-> 0 - p.coeffs[i]], p.disp_ch)

\* C5: a + b has length max(len(a), len(b)) and entry i equal to a[i] + b[i],
\* an absent entry counting as 0; a - b equals a + (b negated) in length and
\* in every entry; neither fails.
C5_AddSub ==
    (pc = "done" /\ op \in {"add", "sub"})
    => /\ res.kind = "Polynomial"
       /\ Len(res.coeffs) = Max(Len(a.coeffs), Len(b.coeffs))
       /\ op = "add" => \A i \in 1..Len(res.coeffs) :
                            res.coeffs[i] = At(a.coeffs, i) + At(b.coeffs, i)
       /\ op = "sub" => res.coeffs = Add(a, Negated(b)).coeffs

C5_Witness ==
    /\ pc = "done" /\ op = "sub"
    /\ a.coeffs = <<3, 4, 5, 9>> /\ b.coeffs = <<9, 12, 3>>
    /\ res.coeffs = <<-6, -8, 2, 9>>

\* sum of xs[i] * ys[k - i] over i in 0..n with both indices in range (0-based)
RECURSIVE ConvSum(_, _, _, _)
ConvSum(xs, ys, k, n) ==
    IF n < 0 THEN 0
    ELSE ConvSum(xs, ys, k, n - 1)
         + (IF n < Len(xs) /\ k - n < Len(ys) THEN xs[n + 1] * ys[k - n + 1] ELSE 0)

\* C6: for a and b of length at least 1, a * b has length len(a) + len(b) - 1
\* and entry k is the sum of a[i] * b[j] over i + j = k.
C6_MulConvolution ==
    (pc = "done" /\ op = "mul" /\ Len(a.coeffs) >= 1 /\ Len(b.coeffs) >= 1)
    => /\ res.kind = "Polynomial"
       /\ Len(res.coeffs) = Len(a.coeffs) + Len(b.coeffs) - 1
       /\ \A k \in 0..(Len(res.coeffs) - 1) :
              res.coeffs[k + 1] = ConvSum(a.coeffs, b.coeffs, k, k)

C6_Witness ==
    /\ pc = "done" /\ op = "mul"
    /\ a.coeffs = <<3, 4, 5, 9>> /\ b.coeffs = <<9, 12, 3>>
    /\ res.coeffs = <<27, 72, 102, 153, 123, 27>>

\* C7: a.derivative() has entry i equal to (i+1) * a[i+1] for i in 0..len(a)-2,
\* so length len(a) - 1, when len(a) >= 2; it is exactly [0] when len(a) <= 1.
C7_Derivative ==
    (pc = "done" /\ op = "derivative")
    => /\ res.kind = "Polynomial"
       /\ IF Len(a.coeffs) <= 1 THEN res.coeffs = <<0>>
          ELSE /\ Len(res.coeffs) = Len(a.coeffs) - 1
               /\ \A i \in 0..(Len(a.coeffs) - 2) :
                      res.coeffs[i + 1] = (i + 1) * a.coeffs[i + 2]

C7_Witness ==
    /\ pc = "done" /\ op = "derivative"
    /\ a.coeffs = <<3, 4, 5, 9>>
    /\ res.coeffs = <<4, 10, 27>>

-----------------------------------------------------------------------------
(* Claims about the rendering, checked under Spec *)

\* coefficient part: decimal digits, nothing for exactly 1
CoeffDigits(c) ==
    IF c = 1 THEN <<>> ELSE IF c < 0 THEN <<"-">> \o NatToStr(0 - c) ELSE NatToStr(c)

\* power part: nothing for 0, the symbol for 1, symbol^k from 2 on
PowerPart(k, sym) ==
    CASE k = 0 -> <<>>
      [] k = 1 -> sym
      [] OTHER -> sym \o <<"^">> \o NatToStr(k)

\* The rendering with the minus signs already in place: the first nonzero
\* term as it is, a later one after " + ", or after " - " without its own
\* sign when its coefficient is negative.
RECURSIVE CanonicalFrom(_, _, _, _)
CanonicalFrom(coeffs, sym, i, first) ==
    IF i > Len(coeffs) THEN <<>>
    ELSE IF coeffs[i] = 0 THEN CanonicalFrom(coeffs, sym, i + 1, first)
    ELSE (IF first THEN CoeffDigits(coeffs[i])
          ELSE IF coeffs[i] < 0 THEN <<" ", "-", " ">> \o NatToStr(0 - coeffs[i])
          ELSE <<" ", "+", " ">> \o CoeffDigits(coeffs[i]))
         \o PowerPart(i - 1, sym)
         \o CanonicalFrom(coeffs, sym, i + 1, FALSE)

C2_RoundTrip ==
    (AfterFromString /\ a.coeffs # <<>> /\ a.coeffs[Len(a.coeffs)] # 0)
    => (res.kind = "Polynomial" /\ res.coeffs = a.coeffs)

=============================================================================
